---- MODULE Spec2Model ----
(***************************************************************************)
(* Model of the rust-utils library: the generic Point<T> (src/point.rs),   *)
(* the macro-generated fixed-width points (src/point_macro.rs) and the     *)
(* text / grid utilities (src/utils.rs).                                   *)
(*                                                                         *)
(* The library is a set of synchronous functions without shared state.  A  *)
(* state of the model is one call: the function called, its operands       *)
(* before the call, the caller-owned operands after the call, and the      *)
(* outcome of the call, which is either a returned value or a panic        *)
(* (Rust's unwinding abort).                                               *)
(* The build profile decides what integer overflow does: a panic when      *)
(* overflow checks are on (debug), two's complement wrap-around when they  *)
(* are off (release).                                                      *)
(***************************************************************************)
EXTENDS Integers, Sequences, FiniteSets, TLC

\* ---------------------------------------------------------------------
\* Bounds of the model
\* ---------------------------------------------------------------------

\* width in bits of the integer type the generic T is instantiated with
IntBits == 6
\* longest row of a grid, most rows of a grid
MaxLen == 2
MaxRows == 2
\* longest text handed to pad
MaxText == 4
\* longest token and longest token sequence handed to to_numeric
MaxTokenLen == 2
MaxTokens == 2

\* ---------------------------------------------------------------------
\* Fixed-width integers
\* ---------------------------------------------------------------------

RECURSIVE Pow2(_)
Pow2(n) == IF n = 0 THEN 1 ELSE 2 * Pow2(n - 1)

IMin == 0 - Pow2(IntBits - 1)
IMax == Pow2(IntBits - 1) - 1
UMax == Pow2(IntBits) - 1
Signed == IMin..IMax
Unsigned == 0..UMax

Builds == {"debug", "release"}

\* outcome of an evaluation: a value, or a panic with its message
Return(v) == [kind |-> "return", val |-> v]
Panic(m) == [kind |-> "panic", msg |-> m]

\* two's complement wrap-around of a mathematical integer
WrapSigned(n) == ((n - IMin) % Pow2(IntBits)) + IMin
WrapUnsigned(n) == n % Pow2(IntBits)

\* result of a primitive signed operation whose mathematical value is n
SignedResult(b, n, what) ==
    IF n \in Signed THEN Return(n)
    ELSE IF b = "debug" THEN Panic(what)
    ELSE Return(WrapSigned(n))

UnsignedResult(b, n, what) ==
    IF n \in Unsigned THEN Return(n)
    ELSE IF b = "debug" THEN Panic(what)
    ELSE Return(WrapUnsigned(n))

AbsInt(n) == IF n < 0 THEN 0 - n ELSE n

\* truncating quotient and remainder of the machine division (d # 0)
TruncDiv(n, d) ==
    IF (n >= 0) = (d > 0) THEN AbsInt(n) \div AbsInt(d)
    ELSE 0 - (AbsInt(n) \div AbsInt(d))

TruncRem(n, d) == n - d * TruncDiv(n, d)

\* x + y, x - y, x.abs(), x / y, x % y on the signed type; operands are
\* outcomes, evaluated left to right, the first panic wins
SAdd(b, x, y) ==
    IF x.kind = "panic" THEN x ELSE IF y.kind = "panic" THEN y
    ELSE SignedResult(b, x.val + y.val, "attempt to add with overflow")

SSub(b, x, y) ==
    IF x.kind = "panic" THEN x ELSE IF y.kind = "panic" THEN y
    ELSE SignedResult(b, x.val - y.val, "attempt to subtract with overflow")

SAbs(b, x) ==
    IF x.kind = "panic" THEN x
    ELSE SignedResult(b, AbsInt(x.val), "attempt to negate with overflow")

\* division and remainder panic in every build on a zero divisor and on
\* MIN / -1
SDiv(x, y) ==
    IF x.kind = "panic" THEN x ELSE IF y.kind = "panic" THEN y
    ELSE IF y.val = 0 THEN Panic("attempt to divide by zero")
    ELSE IF x.val = IMin /\ y.val = 0 - 1 THEN Panic("attempt to divide with overflow")
    ELSE Return(TruncDiv(x.val, y.val))

SRem(x, y) ==
    IF x.kind = "panic" THEN x ELSE IF y.kind = "panic" THEN y
    ELSE IF y.val = 0 THEN Panic("attempt to calculate the remainder with a divisor of zero")
    ELSE IF x.val = IMin /\ y.val = 0 - 1 THEN Panic("attempt to calculate the remainder with overflow")
    ELSE Return(TruncRem(x.val, y.val))

UAdd(b, x, y) ==
    IF x.kind = "panic" THEN x ELSE IF y.kind = "panic" THEN y
    ELSE UnsignedResult(b, x.val + y.val, "attempt to add with overflow")

USub(b, x, y) ==
    IF x.kind = "panic" THEN x ELSE IF y.kind = "panic" THEN y
    ELSE UnsignedResult(b, x.val - y.val, "attempt to subtract with overflow")

MaxOf(x, y) ==
    IF x.kind = "panic" THEN x ELSE IF y.kind = "panic" THEN y
    ELSE IF y.val >= x.val THEN y ELSE x

\* ---------------------------------------------------------------------
\* Point<T>
\* ---------------------------------------------------------------------

Point(x, y) == [x |-> x, y |-> y]

\* coordinates the calls are tried on: the extremes of the type and the
\* values around zero
SignedCoords == {IMin, IMin + 1, 0 - 1, 0, 1, IMax}
UnsignedCoords == {0, 1, 2, UMax - 1, UMax}
SignedPoints == {Point(x, y) : x \in SignedCoords, y \in SignedCoords}
UnsignedPoints == {Point(x, y) : x \in UnsignedCoords, y \in UnsignedCoords}

\* Point::new applied to two evaluated coordinates
NewPoint(x, y) ==
    IF x.kind = "panic" THEN x ELSE IF y.kind = "panic" THEN y
    ELSE Return(Point(x.val, y.val))

\* impl Div<U> for Point<T>
div(self, rhs) ==
    IF rhs = 0 THEN Panic("Cannot divide by zero!")
    ELSE NewPoint(SDiv(Return(self.x), Return(rhs)), SDiv(Return(self.y), Return(rhs)))

\* impl DivAssign<U> for Point<T>: the outcome, and self after the call
\* (self.x is already divided when self.y /= rhs panics)
div_assign(self, rhs) ==
    IF rhs = 0 THEN [out |-> Panic("Cannot divide by zero!"), self |-> self]
    ELSE LET qx == SDiv(Return(self.x), Return(rhs))
             qy == SDiv(Return(self.y), Return(rhs))
         IN  IF qx.kind = "panic" THEN [out |-> qx, self |-> self]
             ELSE IF qy.kind = "panic" THEN [out |-> qy, self |-> Point(qx.val, self.y)]
             ELSE [out |-> Return("unit"), self |-> Point(qx.val, qy.val)]

\* define_point!: impl ops::Div<$T> for $Point
macro_div(self, rhs) ==
    IF rhs = 0 THEN Panic("Cannot divide by zero!")
    ELSE NewPoint(SDiv(Return(self.x), Return(rhs)), SDiv(Return(self.y), Return(rhs)))

\* define_point!: impl ops::DivAssign<$T> for $Point; *self is assigned
\* only after both quotients are computed
macro_div_assign(self, rhs) ==
    IF rhs = 0 THEN [out |-> Panic("Cannot divide by zero!"), self |-> self]
    ELSE LET q == NewPoint(SDiv(Return(self.x), Return(rhs)), SDiv(Return(self.y), Return(rhs)))
         IN  IF q.kind = "panic" THEN [out |-> q, self |-> self]
             ELSE [out |-> Return("unit"), self |-> q.val]

\* manhattan for Signed T: (rhs.x - lhs.x).abs() + (rhs.y - lhs.y).abs()
manhattan(b, lhs, rhs) ==
    SAdd(b, SAbs(b, SSub(b, Return(rhs.x), Return(lhs.x))),
            SAbs(b, SSub(b, Return(rhs.y), Return(lhs.y))))

\* one axis of the unsigned distances:
\* if r > l { r - l } else { l - r }
UnsignedDiff(b, l, r) ==
    IF r > l THEN USub(b, Return(r), Return(l))
    ELSE USub(b, Return(l), Return(r))

manhattan_unsigned(b, lhs, rhs) ==
    LET dx == UnsignedDiff(b, lhs.x, rhs.x)
        dy == UnsignedDiff(b, lhs.y, rhs.y)
    IN  UAdd(b, dx, dy)

\* chebyshev for Signed T: max((rhs.x - lhs.x).abs(), (rhs.y - lhs.y).abs())
chebyshev(b, lhs, rhs) ==
    MaxOf(SAbs(b, SSub(b, Return(rhs.x), Return(lhs.x))),
          SAbs(b, SSub(b, Return(rhs.y), Return(lhs.y))))

chebyshev_unsigned(b, lhs, rhs) ==
    LET dx == UnsignedDiff(b, lhs.x, rhs.x)
        dy == UnsignedDiff(b, lhs.y, rhs.y)
    IN  MaxOf(dx, dy)

\* define_point!: $Point::manhattan and $Point::chebyshev
macro_manhattan(b, lhs, rhs) ==
    SAdd(b, SAbs(b, SSub(b, Return(rhs.x), Return(lhs.x))),
            SAbs(b, SSub(b, Return(rhs.y), Return(lhs.y))))

macro_chebyshev(b, lhs, rhs) ==
    MaxOf(SAbs(b, SSub(b, Return(rhs.x), Return(lhs.x))),
          SAbs(b, SSub(b, Return(rhs.y), Return(lhs.y))))

\* the integer types T is instantiated with
Types == {"signed", "unsigned"}
PointsOf(t) == IF t = "signed" THEN SignedPoints ELSE UnsignedPoints

\* x + y and x - y of the type t
TAdd(t, b, x, y) == IF t = "signed" THEN SAdd(b, x, y) ELSE UAdd(b, x, y)
TSub(t, b, x, y) == IF t = "signed" THEN SSub(b, x, y) ELSE USub(b, x, y)

\* impl Add for Point<T>
add(t, b, self, rhs) ==
    NewPoint(TAdd(t, b, Return(self.x), Return(rhs.x)),
             TAdd(t, b, Return(self.y), Return(rhs.y)))

\* impl Sub for Point<T>
sub(t, b, self, rhs) ==
    NewPoint(TSub(t, b, Return(self.x), Return(rhs.x)),
             TSub(t, b, Return(self.y), Return(rhs.y)))

\* an in-place step on one coordinate: the outcome, and self after the call
\* (self is not assigned when the arithmetic panics)
MoveTo(self, x, y) ==
    IF x.kind = "panic" THEN [out |-> x, self |-> self]
    ELSE IF y.kind = "panic" THEN [out |-> y, self |-> self]
    ELSE [out |-> Return("unit"), self |-> Point(x.val, y.val)]

\* self.y -= T::one()
move_up(t, b, self) ==
    MoveTo(self, Return(self.x), TSub(t, b, Return(self.y), Return(1)))

\* self.y += T::one()
move_down(t, b, self) ==
    MoveTo(self, Return(self.x), TAdd(t, b, Return(self.y), Return(1)))

\* self.x -= T::one()
move_left(t, b, self) ==
    MoveTo(self, TSub(t, b, Return(self.x), Return(1)), Return(self.y))

\* self.x += T::one()
move_right(t, b, self) ==
    MoveTo(self, TAdd(t, b, Return(self.x), Return(1)), Return(self.y))

\* up with the y axis pointing up: y + 1 in place of y - 1
up_cartesian(t, b, self) ==
    NewPoint(Return(self.x), TAdd(t, b, Return(self.y), Return(1)))

\* Point::new(self.x, self.y - T::one())
up(t, b, self) ==
    NewPoint(Return(self.x), TSub(t, b, Return(self.y), Return(1)))

\* Point::new(self.x, self.y + T::one())
down(t, b, self) ==
    NewPoint(Return(self.x), TAdd(t, b, Return(self.y), Return(1)))

\* Point::new(self.x - T::one(), self.y)
left(t, b, self) ==
    NewPoint(TSub(t, b, Return(self.x), Return(1)), Return(self.y))

\* Point::new(self.x + T::one(), self.y)
right(t, b, self) ==
    NewPoint(TAdd(t, b, Return(self.x), Return(1)), Return(self.y))

\* an array expression: the elements are evaluated in order and the first
\* panic ends the evaluation
RECURSIVE ArrayFrom(_, _, _)
ArrayFrom(outcomes, i, acc) ==
    IF i > Len(outcomes) THEN Return(acc)
    ELSE IF outcomes[i].kind = "panic" THEN outcomes[i]
    ELSE ArrayFrom(outcomes, i + 1, Append(acc, outcomes[i].val))

\* [self.up(), self.down(), self.left(), self.right()]
neighbors(t, b, self) ==
    ArrayFrom(<<up(t, b, self), down(t, b, self), left(t, b, self), right(t, b, self)>>, 1, <<>>)

\* ---------------------------------------------------------------------
\* Grid utilities
\* ---------------------------------------------------------------------

None == [some |-> FALSE]
Some(v) == [some |-> TRUE, v |-> v]

SeqsUpTo(S, n) == UNION {[1..k -> S] : k \in 0..n}

\* values of the grid cells, rows and grids the calls are tried on
GridVals == {0 - 1, 1, IMax}
\* the grid of tests::grid_summation
SummationGrid == <<<<1, 2, 3>>, <<4, 5, 6>>, <<7, 8, 9>>>>
Rows == SeqsUpTo(GridVals, MaxLen)
Grids == SeqsUpTo(Rows, MaxRows) \cup {SummationGrid}

\* row.as_ref()[n]: slice indexing panics past the end of the row
Index(row, n) ==
    IF n < Len(row) THEN Return(row[n + 1])
    ELSE Panic("index out of bounds")

\* grid.iter().map(|row| row.as_ref()[n]).sum(), from row i on, the
\* additions done so far being acc
RECURSIVE SumColumnFrom(_, _, _, _, _)
SumColumnFrom(b, grid, n, i, acc) ==
    IF acc.kind = "panic" \/ i > Len(grid) THEN acc
    ELSE SumColumnFrom(b, grid, n, i + 1, SAdd(b, acc, Index(grid[i], n)))

\* row.iter().copied().sum()
RECURSIVE SumFrom(_, _, _, _)
SumFrom(b, row, i, acc) ==
    IF acc.kind = "panic" \/ i > Len(row) THEN acc
    ELSE SumFrom(b, row, i + 1, SAdd(b, acc, Return(row[i])))

\* grid.iter().map(|row| row.as_ref()[n]), as far as it gets: the
\* column, or the panic of the first row too short for n
RECURSIVE ColumnFrom(_, _, _, _)
ColumnFrom(grid, n, i, acc) ==
    IF acc.kind = "panic" \/ i > Len(grid) THEN acc
    ELSE LET e == Index(grid[i], n)
         IN  ColumnFrom(grid, n, i + 1,
                        IF e.kind = "panic" THEN e ELSE Return(Append(acc.val, e.val)))

\* Iterator::min and Iterator::max of a sequence already produced
IterMin(xs) ==
    IF xs = <<>> THEN None
    ELSE Some(CHOOSE m \in {xs[i] : i \in 1..Len(xs)} : \A i \in 1..Len(xs) : m <= xs[i])

IterMax(xs) ==
    IF xs = <<>> THEN None
    ELSE Some(CHOOSE m \in {xs[i] : i \in 1..Len(xs)} : \A i \in 1..Len(xs) : m >= xs[i])

sum_column(b, grid, n) ==
    IF grid = <<>> \/ n >= Len(grid[1]) THEN Return(None)
    ELSE LET s == SumColumnFrom(b, grid, n, 1, Return(0))
         IN  IF s.kind = "panic" THEN s ELSE Return(Some(s.val))

\* sum_row that has no result for a row without elements, as min_row
sum_row_absent_on_empty(b, grid, n) ==
    IF n >= Len(grid) THEN Return(None)
    ELSE IF grid[n + 1] = <<>> THEN Return(None)
    ELSE LET s == SumFrom(b, grid[n + 1], 1, Return(0))
         IN  IF s.kind = "panic" THEN s ELSE Return(Some(s.val))

sum_row(b, grid, n) ==
    IF n >= Len(grid) THEN Return(None)
    ELSE LET s == SumFrom(b, grid[n + 1], 1, Return(0))
         IN  IF s.kind = "panic" THEN s ELSE Return(Some(s.val))

min_column(grid, n) ==
    IF grid = <<>> \/ n >= Len(grid[1]) THEN Return(None)
    ELSE LET c == ColumnFrom(grid, n, 1, Return(<<>>))
         IN  IF c.kind = "panic" THEN c ELSE Return(IterMin(c.val))

max_column(grid, n) ==
    IF grid = <<>> \/ n >= Len(grid[1]) THEN Return(None)
    ELSE LET c == ColumnFrom(grid, n, 1, Return(<<>>))
         IN  IF c.kind = "panic" THEN c ELSE Return(IterMax(c.val))

min_row(grid, n) ==
    IF n >= Len(grid) THEN Return(None)
    ELSE Return(IterMin(grid[n + 1]))

max_row(grid, n) ==
    IF n >= Len(grid) THEN Return(None)
    ELSE Return(IterMax(grid[n + 1]))

\* PushRow with the element put in front of the column instead of behind it
RECURSIVE PushRow_front(_, _, _)
PushRow_front(rotated, row, i) ==
    IF i > Len(row) THEN rotated
    ELSE PushRow_front([rotated EXCEPT ![i] = <<row[i]>> \o @], row, i + 1)

\* rotated[i].push(element) for every (i, element) of row, from element i on
RECURSIVE PushRow(_, _, _)
PushRow(rotated, row, i) ==
    IF i > Len(row) THEN rotated
    ELSE PushRow([rotated EXCEPT ![i] = Append(@, row[i])], row, i + 1)

\* the outer loop of rotate, from row r on
RECURSIVE PushRows(_, _, _)
PushRows(rotated, grid, r) ==
    IF r > Len(grid) THEN rotated
    ELSE PushRows(PushRow(rotated, grid[r], 1), grid, r + 1)

\* MaxColumnSize with the shortest row in place of the longest
MaxColumnSize_min(grid) ==
    IF grid = <<>> THEN 0
    ELSE CHOOSE m \in {Len(grid[r]) : r \in 1..Len(grid)} :
            \A r \in 1..Len(grid) : m <= Len(grid[r])

\* .map(|row| row.len()).max().unwrap_or(0)
MaxColumnSize(grid) ==
    IF grid = <<>> THEN 0
    ELSE CHOOSE m \in {Len(grid[r]) : r \in 1..Len(grid)} :
            \A r \in 1..Len(grid) : m >= Len(grid[r])

rotate(grid) ==
    PushRows([i \in 1..MaxColumnSize(grid) |-> <<>>], grid, 1)

\* ---------------------------------------------------------------------
\* pad
\* ---------------------------------------------------------------------

LF == "\n"
CR == "\r"
Chars == {"a", "b", LF, CR}
Fillers == {"#", "a"}
Texts == SeqsUpTo(Chars, MaxText)

\* str::split_inclusive('\n'): the pieces end with their terminator; a
\* last piece without terminator is kept when it is not empty
RECURSIVE SplitInclusive(_, _, _, _)
SplitInclusive(text, i, cur, acc) ==
    IF i > Len(text) THEN (IF cur = <<>> THEN acc ELSE Append(acc, cur))
    ELSE IF text[i] = LF THEN SplitInclusive(text, i + 1, <<>>, Append(acc, Append(cur, LF)))
    ELSE SplitInclusive(text, i + 1, Append(cur, text[i]), acc)

StripSuffix(line, c) ==
    IF line # <<>> /\ line[Len(line)] = c THEN Some(SubSeq(line, 1, Len(line) - 1))
    ELSE None

\* str::lines: each piece loses its "\n", and then one "\r" before it
StripLine(piece) ==
    LET a == StripSuffix(piece, LF)
    IN  IF ~a.some THEN piece
        ELSE LET c == StripSuffix(a.v, CR)
             IN  IF ~c.some THEN a.v ELSE c.v

lines(text) ==
    LET pieces == SplitInclusive(text, 1, <<>>, <<>>)
    IN  [i \in 1..Len(pieces) |-> StripLine(pieces[i])]

Repeat(c, n) == [i \in 1..n |-> c]

\* pad without the test for lines that are all empty
pad_no_empty_lines_test(input, filler) ==
    LET ls == lines(input)
    IN  IF ls = <<>> THEN Return(None)
        ELSE LET padded_lines == [i \in 1..Len(ls) |-> <<filler>> \o ls[i] \o <<filler>>]
                 border_width == Len(padded_lines[1])
                 border == Repeat(filler, border_width)
             IN  Return(Some(<<border>> \o padded_lines \o <<border>>))

pad(input, filler) ==
    LET ls == lines(input)
    IN  IF ls = <<>> \/ (\A i \in 1..Len(ls) : ls[i] = <<>>) THEN Return(None)
        ELSE LET padded_lines == [i \in 1..Len(ls) |-> <<filler>> \o ls[i] \o <<filler>>]
                 border_width == Len(padded_lines[1])
                 border == Repeat(filler, border_width)
             IN  Return(Some(<<border>> \o padded_lines \o <<border>>))

\* ---------------------------------------------------------------------
\* modulus
\* ---------------------------------------------------------------------

\* ((lhs % rhs) + rhs) % rhs
modulus(b, lhs, rhs) ==
    SRem(SAdd(b, SRem(Return(lhs), Return(rhs)), Return(rhs)), Return(rhs))

\* ---------------------------------------------------------------------
\* Numeric conversion
\* ---------------------------------------------------------------------

Ok(v) == [ok |-> TRUE, v |-> v]
Err(e) == [ok |-> FALSE, e |-> e]

\* characters of the tokens, tokens and token sequences the calls are
\* tried on
TokenChars == {"1", "9", "-", "x"}
Tokens == SeqsUpTo(TokenChars, MaxTokenLen)
TokenSeqs == SeqsUpTo(Tokens, MaxTokens)
GridTokens == {<<>>, <<"1">>, <<"x">>}
TokenGrids == SeqsUpTo(SeqsUpTo(GridTokens, MaxTokens), MaxRows)

\* char::to_digit(10)
ToDigit(c) ==
    IF c = "1" THEN Some(1) ELSE IF c = "9" THEN Some(9) ELSE None

\* the digit loop of the signed FromStr: result * 10 and then result +- digit,
\* each checked against the range of the type
RECURSIVE ParseDigits(_, _, _, _)
ParseDigits(digits, i, positive, result) ==
    IF i > Len(digits) THEN Ok(result)
    ELSE LET d == ToDigit(digits[i])
             overflow == IF positive THEN "PosOverflow" ELSE "NegOverflow"
         IN  IF ~d.some THEN Err("InvalidDigit")
             ELSE IF result * 10 \notin Signed THEN Err(overflow)
             ELSE LET r == IF positive THEN result * 10 + d.v ELSE result * 10 - d.v
                  IN  IF r \notin Signed THEN Err(overflow)
                      ELSE ParseDigits(digits, i + 1, positive, r)

\* s.parse::<T>() for a signed integer T; the error is the ParseIntError,
\* which holds the kind of the failure and nothing else
parse(token) ==
    IF token = <<>> THEN Err("Empty")
    ELSE IF token = <<"-">> THEN Err("InvalidDigit")
    ELSE IF token[1] = "-" THEN ParseDigits(SubSeq(token, 2, Len(token)), 1, FALSE, 0)
    ELSE ParseDigits(token, 1, TRUE, 0)

\* collect() into Result<Vec<_>, _>: the values so far, until the first Err
RECURSIVE CollectFrom(_, _, _)
CollectFrom(results, i, acc) ==
    IF i > Len(results) THEN Ok(acc)
    ELSE IF ~results[i].ok THEN results[i]
    ELSE CollectFrom(results, i + 1, Append(acc, results[i].v))

to_numeric(input) ==
    CollectFrom([i \in 1..Len(input) |-> parse(input[i])], 1, <<>>)

to_2d_numeric(input) ==
    CollectFrom([i \in 1..Len(input) |-> to_numeric(input[i])], 1, <<>>)

\* ---------------------------------------------------------------------
\* State
\* ---------------------------------------------------------------------

VARIABLES build, fn, args, after, ret

vars == <<build, fn, args, after, ret>>

Init ==
    /\ build \in Builds
    /\ fn = "none"
    /\ args = ("none" :> <<>>)
    /\ after = ("none" :> <<>>)
    /\ ret = ("none" :> Return("unit"))

\* a call of the function name on the operands a, which leaves them as
\* b and has the outcome out; the operands and the outcome are recorded
\* under the name of the function.  A behaviour is one call made by a
\* program built with one profile.
Call(name, a, b, out) ==
    /\ fn' = name
    /\ args' = (name :> a)
    /\ after' = (name :> b)
    /\ ret' = (name :> out)
    /\ UNCHANGED build

\* a call that leaves its operands as they were
Pure(name, a, out) == Call(name, a, a, out)

\* the operands, the operands after the call and the outcome of the call
Args == args[fn]
Arg(i) == args[fn][i]
After == after[fn]
Ret == ret[fn]

Call_div ==
    /\ fn = "none"
    /\ \E p \in SignedPoints, k \in SignedCoords :
           Pure("div", <<p, k>>, div(p, k))

Call_div_assign ==
    /\ fn = "none"
    /\ \E p \in SignedPoints, k \in SignedCoords :
           Call("div_assign", <<p, k>>, <<div_assign(p, k).self, k>>, div_assign(p, k).out)

Call_macro_div ==
    /\ fn = "none"
    /\ \E p \in SignedPoints, k \in SignedCoords :
           Pure("macro_div", <<p, k>>, macro_div(p, k))

Call_macro_div_assign ==
    /\ fn = "none"
    /\ \E p \in SignedPoints, k \in SignedCoords :
           Call("macro_div_assign", <<p, k>>,
                <<macro_div_assign(p, k).self, k>>, macro_div_assign(p, k).out)

\* indices the accessors are tried with: in range and past the end
Indices == 0..(MaxLen + 1)

Call_sum_column ==
    /\ fn = "none"
    /\ \E g \in Grids, n \in Indices : Pure("sum_column", <<g, n>>, sum_column(build, g, n))

Call_sum_row ==
    /\ fn = "none"
    /\ \E g \in Grids, n \in Indices : Pure("sum_row", <<g, n>>, sum_row(build, g, n))

Call_min_column ==
    /\ fn = "none"
    /\ \E g \in Grids, n \in Indices : Pure("min_column", <<g, n>>, min_column(g, n))

Call_max_column ==
    /\ fn = "none"
    /\ \E g \in Grids, n \in Indices : Pure("max_column", <<g, n>>, max_column(g, n))

Call_min_row ==
    /\ fn = "none"
    /\ \E g \in Grids, n \in Indices : Pure("min_row", <<g, n>>, min_row(g, n))

Call_max_row ==
    /\ fn = "none"
    /\ \E g \in Grids, n \in Indices : Pure("max_row", <<g, n>>, max_row(g, n))

Call_rotate ==
    /\ fn = "none"
    /\ \E g \in Grids : Pure("rotate", <<g>>, Return(rotate(g)))

Call_pad ==
    /\ fn = "none"
    /\ \E t \in Texts, f \in Fillers : Pure("pad", <<t, f>>, pad(t, f))

Call_modulus ==
    /\ fn = "none"
    /\ \E a \in Signed, m \in Signed : Pure("modulus", <<a, m>>, modulus(build, a, m))

Call_manhattan ==
    /\ fn = "none"
    /\ \E p \in SignedPoints, q \in SignedPoints :
           Pure("manhattan", <<p, q>>, manhattan(build, p, q))

Call_manhattan_unsigned ==
    /\ fn = "none"
    /\ \E p \in UnsignedPoints, q \in UnsignedPoints :
           Pure("manhattan_unsigned", <<p, q>>, manhattan_unsigned(build, p, q))

Call_chebyshev ==
    /\ fn = "none"
    /\ \E p \in SignedPoints, q \in SignedPoints :
           Pure("chebyshev", <<p, q>>, chebyshev(build, p, q))

Call_chebyshev_unsigned ==
    /\ fn = "none"
    /\ \E p \in UnsignedPoints, q \in UnsignedPoints :
           Pure("chebyshev_unsigned", <<p, q>>, chebyshev_unsigned(build, p, q))

Call_macro_manhattan ==
    /\ fn = "none"
    /\ \E p \in SignedPoints, q \in SignedPoints :
           Pure("macro_manhattan", <<p, q>>, macro_manhattan(build, p, q))

Call_macro_chebyshev ==
    /\ fn = "none"
    /\ \E p \in SignedPoints, q \in SignedPoints :
           Pure("macro_chebyshev", <<p, q>>, macro_chebyshev(build, p, q))

Call_to_numeric ==
    /\ fn = "none"
    /\ \E t \in TokenSeqs : Pure("to_numeric", <<t>>, Return(to_numeric(t)))

Call_to_2d_numeric ==
    /\ fn = "none"
    /\ \E g \in TokenGrids : Pure("to_2d_numeric", <<g>>, Return(to_2d_numeric(g)))

Call_add ==
    /\ fn = "none"
    /\ \E t \in Types : \E p \in PointsOf(t), q \in PointsOf(t) :
           Pure("add", <<p, q, t>>, add(t, build, p, q))

Call_sub ==
    /\ fn = "none"
    /\ \E t \in Types : \E p \in PointsOf(t), q \in PointsOf(t) :
           Pure("sub", <<p, q, t>>, sub(t, build, p, q))

Call_move_up ==
    /\ fn = "none"
    /\ \E t \in Types : \E p \in PointsOf(t) :
           Call("move_up", <<p, t>>, <<move_up(t, build, p).self, t>>, move_up(t, build, p).out)

Call_move_down ==
    /\ fn = "none"
    /\ \E t \in Types : \E p \in PointsOf(t) :
           Call("move_down", <<p, t>>, <<move_down(t, build, p).self, t>>, move_down(t, build, p).out)

Call_move_left ==
    /\ fn = "none"
    /\ \E t \in Types : \E p \in PointsOf(t) :
           Call("move_left", <<p, t>>, <<move_left(t, build, p).self, t>>, move_left(t, build, p).out)

Call_move_right ==
    /\ fn = "none"
    /\ \E t \in Types : \E p \in PointsOf(t) :
           Call("move_right", <<p, t>>, <<move_right(t, build, p).self, t>>, move_right(t, build, p).out)

Call_up ==
    /\ fn = "none"
    /\ \E t \in Types : \E p \in PointsOf(t) : Pure("up", <<p, t>>, up(t, build, p))

Call_down ==
    /\ fn = "none"
    /\ \E t \in Types : \E p \in PointsOf(t) : Pure("down", <<p, t>>, down(t, build, p))

Call_left ==
    /\ fn = "none"
    /\ \E t \in Types : \E p \in PointsOf(t) : Pure("left", <<p, t>>, left(t, build, p))

Call_right ==
    /\ fn = "none"
    /\ \E t \in Types : \E p \in PointsOf(t) : Pure("right", <<p, t>>, right(t, build, p))

Call_neighbors ==
    /\ fn = "none"
    /\ \E t \in Types : \E p \in PointsOf(t) :
           Pure("neighbors", <<p, t>>, neighbors(t, build, p))

Next ==
    \/ Call_div
    \/ Call_div_assign
    \/ Call_macro_div
    \/ Call_macro_div_assign
    \/ Call_sum_column
    \/ Call_sum_row
    \/ Call_min_column
    \/ Call_max_column
    \/ Call_min_row
    \/ Call_max_row
    \/ Call_rotate
    \/ Call_pad
    \/ Call_modulus
    \/ Call_manhattan
    \/ Call_manhattan_unsigned
    \/ Call_chebyshev
    \/ Call_chebyshev_unsigned
    \/ Call_macro_manhattan
    \/ Call_macro_chebyshev
    \/ Call_to_numeric
    \/ Call_to_2d_numeric
    \/ Call_add
    \/ Call_sub
    \/ Call_move_up
    \/ Call_move_down
    \/ Call_move_left
    \/ Call_move_right
    \/ Call_up
    \/ Call_down
    \/ Call_left
    \/ Call_right
    \/ Call_neighbors

Spec == Init /\ [][Next]_vars

\* ---------------------------------------------------------------------
\* Properties
\* ---------------------------------------------------------------------

DivFns == {"div", "div_assign", "macro_div", "macro_div_assign"}

\* C1: dividing a point by a zero scalar, with p / k or p /= k, gives the
\* caller a DivideByZero failure as a returned, inspectable value; the call
\* neither returns a point nor ends in a panic.
C1_DivideByZeroReported ==
    (fn \in DivFns /\ Arg(2) = 0) =>
        /\ Ret.kind = "return"
        /\ Ret.val = "DivideByZero"

ColumnFns == {"sum_column", "min_column", "max_column"}
RowFns == {"sum_row", "min_row", "max_row"}

\* n is not a valid index of some row of the grid
ColumnOutOfRange(g, n) == \E i \in 1..Len(g) : n >= Len(g[i])

\* C2: each of the six accessors completes with a value or the absence
\* signal and never panics, on every grid (empty and ragged ones included)
\* and every index; on an empty grid or an index out of range (for a
\* column accessor: not a valid index of some row) the result is the
\* absence signal.
C2_AccessorsNeverAbort ==
    (fn \in ColumnFns \cup RowFns) =>
        /\ Ret.kind = "return"
        /\ (Arg(1) = <<>>) => Ret.val = None
        /\ (fn \in ColumnFns /\ ColumnOutOfRange(Arg(1), Arg(2))) => Ret.val = None
        /\ (fn \in RowFns /\ Arg(2) >= Len(Arg(1))) => Ret.val = None

HasNonEmptyLine(text) == \E i \in 1..Len(lines(text)) : lines(text)[i] # <<>>

\* the length of the longest line
LineLength(ls) ==
    CHOOSE m \in {Len(ls[i]) : i \in 1..Len(ls)} : \A i \in 1..Len(ls) : m >= Len(ls[i])

\* C3: for a text with at least one non-empty line, pad returns a grid of
\* (number of lines + 2) rows, every row of (line length + 2) cells, with
\* the character at line r, position c at result[r+1][c+1] and every cell
\* of the first row, last row, first column and last column equal to the
\* filler; also when the lines differ in length or the first line is
\* empty (the line length is then that of the longest line).
C3_PadShape ==
    (fn = "pad" /\ HasNonEmptyLine(Arg(1))) =>
        LET ls == lines(Arg(1))
            w == LineLength(ls)
            f == Arg(2)
        IN  /\ Ret.kind = "return"
            /\ Ret.val.some
            /\ Len(Ret.val.v) = Len(ls) + 2
            /\ \A r \in 1..Len(Ret.val.v) : Len(Ret.val.v[r]) = w + 2
            /\ \A r \in 1..Len(ls) : \A c \in 1..Len(ls[r]) : Ret.val.v[r + 1][c + 1] = ls[r][c]
            /\ \A c \in 1..(w + 2) : Ret.val.v[1][c] = f /\ Ret.val.v[Len(ls) + 2][c] = f
            /\ \A r \in 1..(Len(ls) + 2) : Ret.val.v[r][1] = f /\ Ret.val.v[r][w + 2] = f

\* the text is made of line terminators only: "\n" and "\r\n"
OnlyTerminators(text) ==
    \A i \in 1..Len(text) :
        \/ text[i] = LF
        \/ text[i] = CR /\ i < Len(text) /\ text[i + 1] = LF

\* C4: pad returns the absence signal, and does not panic, for the empty
\* text and for every text made only of line terminators.
C4_PadAbsent ==
    (fn = "pad" /\ OnlyTerminators(Arg(1))) => Ret = Return(None)

C4_Witness ==
    /\ fn = "pad"
    /\ Len(Arg(1)) >= 3
    /\ OnlyTerminators(Arg(1))
    /\ \E i \in 1..Len(Arg(1)) : Arg(1)[i] = CR
    /\ Ret = Return(None)

Rectangular(g) == \A i \in 1..Len(g) : \A j \in 1..Len(g) : Len(g[i]) = Len(g[j])

\* C5 as stated: for every rectangular grid, the grid with no rows and
\* grids of empty rows included, rotate(rotate(grid)) is the grid.
C5_RotateTwiceOriginal ==
    (fn = "rotate" /\ Rectangular(Arg(1))) => rotate(Ret.val) = Arg(1)

\* C5 amended: for every rectangular grid with no rows or with non-empty
\* rows, rotate(rotate(grid)) is the grid; for a grid of one or more empty
\* rows it is the grid with no rows.
C5_RotateTwice ==
    (fn = "rotate" /\ Rectangular(Arg(1))) =>
        IF Arg(1) # <<>> /\ Arg(1)[1] = <<>>
        THEN Ret.val = <<>> /\ rotate(Ret.val) = <<>>
        ELSE rotate(Ret.val) = Arg(1)

C5_Witness ==
    /\ fn = "rotate"
    /\ Rectangular(Arg(1))
    /\ Len(Arg(1)) = 2
    /\ Len(Arg(1)[1]) = 2
    /\ Arg(1)[1][2] # Arg(1)[2][1]
    /\ Ret.val # Arg(1)
    /\ rotate(Ret.val) = Arg(1)

\* element i of every row of g that has one, in the order of the rows,
\* taking the rows from k on
RECURSIVE ColumnOf(_, _, _)
ColumnOf(g, i, k) ==
    IF k > Len(g) THEN <<>>
    ELSE IF Len(g[k]) >= i THEN <<g[k][i]>> \o ColumnOf(g, i, k + 1)
    ELSE ColumnOf(g, i, k + 1)

RECURSIVE CountFrom(_, _)
CountFrom(g, k) == IF k > Len(g) THEN 0 ELSE Len(g[k]) + CountFrom(g, k + 1)

\* C6: for every grid, ragged or not, rotate returns as many rows as the
\* longest input row has elements; row i is element i of each input row
\* that has at least i elements (counting from 1), in row order; the output
\* holds as many elements as the input, and the input grid is unchanged.
C6_RotateRagged ==
    (fn = "rotate") =>
        /\ Ret.kind = "return"
        /\ \A r \in 1..Len(Arg(1)) : Len(Arg(1)[r]) <= Len(Ret.val)
        /\ (Len(Ret.val) > 0) => \E r \in 1..Len(Arg(1)) : Len(Arg(1)[r]) = Len(Ret.val)
        /\ \A i \in 1..Len(Ret.val) : Ret.val[i] = ColumnOf(Arg(1), i, 1)
        /\ CountFrom(Ret.val, 1) = CountFrom(Arg(1), 1)
        /\ After = Args

C6_Witness ==
    /\ fn = "rotate"
    /\ ~Rectangular(Arg(1))
    /\ Len(Arg(1)) = 2
    /\ Len(Arg(1)[1]) < Len(Arg(1)[2])
    /\ Len(Arg(1)[1]) > 0
    /\ Len(Ret.val) = Len(Arg(1)[2])
    /\ Len(Ret.val[Len(Ret.val)]) = 1

\* C7: for every positive b and every a of a fixed-width signed type,
\* modulus(a, b) is in 0..b-1 and congruent to a modulo b, with
\* modulus(7, 5) = 2 and modulus(-7, 5) = 3, and the intermediate sum
\* (a % b) + b stays in the range of the type.
C7_ModulusRange ==
    (fn = "modulus" /\ Arg(2) > 0) =>
        /\ TruncRem(Arg(1), Arg(2)) + Arg(2) \in Signed
        /\ Ret.kind = "return"
        /\ 0 <= Ret.val /\ Ret.val < Arg(2)
        /\ (Ret.val - Arg(1)) % Arg(2) = 0
        /\ (Args = <<7, 5>>) => Ret.val = 2
        /\ (Args = <<0 - 7, 5>>) => Ret.val = 3

SignedDistanceFns == {"manhattan", "macro_manhattan", "chebyshev", "macro_chebyshev"}
UnsignedDistanceFns == {"manhattan_unsigned", "chebyshev_unsigned"}

\* the per-axis absolute differences of the two points of the call
AbsDx == AbsInt(Arg(1).x - Arg(2).x)
AbsDy == AbsInt(Arg(1).y - Arg(2).y)
MaxInt(m, n) == IF m >= n THEN m ELSE n

\* C8: manhattan(a, b) equals manhattan(b, a) and equals
\* |a.x - b.x| + |a.y - b.y| for all points a and b; in manhattan_unsigned and
\* chebyshev_unsigned no per-axis subtraction goes below zero, whichever
\* argument has the larger coordinate.
C8_ManhattanSymmetric ==
    /\ (fn = "manhattan") =>
            /\ Ret = manhattan(build, Arg(2), Arg(1))
            /\ Ret = Return(AbsDx + AbsDy)
    /\ (fn = "macro_manhattan") =>
            /\ Ret = macro_manhattan(build, Arg(2), Arg(1))
            /\ Ret = Return(AbsDx + AbsDy)
    /\ (fn \in UnsignedDistanceFns) =>
            /\ UnsignedDiff(build, Arg(1).x, Arg(2).x) = Return(AbsDx)
            /\ UnsignedDiff(build, Arg(1).y, Arg(2).y) = Return(AbsDy)
            /\ UnsignedDiff(build, Arg(2).x, Arg(1).x) = Return(AbsDx)
            /\ UnsignedDiff(build, Arg(2).y, Arg(1).y) = Return(AbsDy)
    /\ (fn = "manhattan_unsigned") => Ret = manhattan_unsigned(build, Arg(2), Arg(1))
    /\ (fn = "chebyshev_unsigned") => Ret = Return(MaxInt(AbsDx, AbsDy))

\* C9: for all points a and b of a fixed-width signed type, the extremes
\* of the type included, chebyshev(a, b) is the larger of the two per-axis
\* absolute differences, is >= 0 and is <= manhattan(a, b).
C9_ChebyshevBounds ==
    /\ (fn = "chebyshev") =>
            /\ Ret = Return(MaxInt(AbsDx, AbsDy))
            /\ Ret.val >= 0
            /\ manhattan(build, Arg(1), Arg(2)).kind = "return"
            /\ Ret.val <= manhattan(build, Arg(1), Arg(2)).val
    /\ (fn = "macro_chebyshev") =>
            /\ Ret = Return(MaxInt(AbsDx, AbsDy))
            /\ Ret.val >= 0
            /\ macro_manhattan(build, Arg(1), Arg(2)).kind = "return"
            /\ Ret.val <= macro_manhattan(build, Arg(1), Arg(2)).val

\* the first token of the sequence that does not parse
RECURSIVE FirstInvalid(_, _)
FirstInvalid(tokens, i) ==
    IF i > Len(tokens) THEN None
    ELSE IF ~parse(tokens[i]).ok THEN Some(tokens[i])
    ELSE FirstInvalid(tokens, i + 1)

\* the tokens of a grid of tokens, row after row, from row r on
RECURSIVE FlattenFrom(_, _)
FlattenFrom(g, r) == IF r > Len(g) THEN <<>> ELSE g[r] \o FlattenFrom(g, r + 1)

Flatten(g) == FlattenFrom(g, 1)

\* C10: to_numeric returns one value per token, in the same order and of
\* the same count, or fails with an error that identifies the token that
\* failed (two failures with the same error have the same offending token);
\* no invalid token is dropped or defaulted and a failure carries no partial
\* result; to_2d_numeric does the same row by row.
C10_ParseNumeric ==
    /\ (fn = "to_numeric") =>
            IF \A i \in 1..Len(Arg(1)) : parse(Arg(1)[i]).ok
            THEN /\ Ret.val.ok
                 /\ Len(Ret.val.v) = Len(Arg(1))
                 /\ \A i \in 1..Len(Arg(1)) : Ret.val.v[i] = parse(Arg(1)[i]).v
            ELSE /\ ~Ret.val.ok
                 /\ DOMAIN Ret.val = {"ok", "e"}
                 /\ \A other \in TokenSeqs :
                        to_numeric(other) = Ret.val => FirstInvalid(other, 1) = FirstInvalid(Arg(1), 1)
    /\ (fn = "to_2d_numeric") =>
            IF \A r \in 1..Len(Arg(1)) : \A i \in 1..Len(Arg(1)[r]) : parse(Arg(1)[r][i]).ok
            THEN /\ Ret.val.ok
                 /\ Len(Ret.val.v) = Len(Arg(1))
                 /\ \A r \in 1..Len(Arg(1)) :
                        /\ Len(Ret.val.v[r]) = Len(Arg(1)[r])
                        /\ \A i \in 1..Len(Arg(1)[r]) : Ret.val.v[r][i] = parse(Arg(1)[r][i]).v
            ELSE /\ ~Ret.val.ok
                 /\ DOMAIN Ret.val = {"ok", "e"}
                 /\ \A other \in TokenGrids :
                        to_2d_numeric(other) = Ret.val =>
                            FirstInvalid(Flatten(other), 1) = FirstInvalid(Flatten(Arg(1)), 1)

\* two outcomes agree: both are panics, or both return the same value
SameOutcome(r1, r2) ==
    /\ r1.kind = r2.kind
    /\ (r1.kind = "return") => r1.val = r2.val

MoveFns == {"move_up", "move_down", "move_left", "move_right"}
StepFns == {"up", "down", "left", "right"}

\* the unit offset of a direction in screen coordinates
Offset(dir) ==
    IF dir \in {"up", "move_up"} THEN Point(0, 0 - 1)
    ELSE IF dir \in {"down", "move_down"} THEN Point(0, 1)
    ELSE IF dir \in {"left", "move_left"} THEN Point(0 - 1, 0)
    ELSE Point(1, 0)

\* p + offset of the direction, for the point p of the call
Shifted(dir) == add("signed", build, Arg(1), Offset(dir))

\* what up / down / left / right returns for the point p of the call
Step(dir) ==
    IF dir \in {"up", "move_up"} THEN up("signed", build, Arg(1))
    ELSE IF dir \in {"down", "move_down"} THEN down("signed", build, Arg(1))
    ELSE IF dir \in {"left", "move_left"} THEN left("signed", build, Arg(1))
    ELSE right("signed", build, Arg(1))

\* C11: for every point p (of a signed type, where the offsets exist),
\* up() is p + (0, -1), down() is p + (0, 1), left() is p + (-1, 0) and
\* right() is p + (1, 0), and p is unchanged; each move_* leaves the point
\* equal to what up / down / left / right returns; neighbors() is
\* [up, down, left, right] in that order.  Where the step leaves the range
\* of the type, both sides panic when overflow checks are on (move_* then
\* leaves the point as it was) and both wrap around when they are off.
C11_Directions ==
    /\ (fn \in StepFns /\ Arg(2) = "signed") =>
            /\ SameOutcome(Ret, Shifted(fn))
            /\ After = Args
    /\ (fn \in MoveFns /\ Arg(2) = "signed") =>
            /\ Ret.kind = Step(fn).kind
            /\ (Ret.kind = "return") => After[1] = Step(fn).val /\ After[1] = Shifted(fn).val
            /\ (Ret.kind = "panic") => After[1] = Arg(1)
    /\ (fn = "neighbors" /\ Arg(2) = "signed") =>
            /\ After = Args
            /\ (Ret.kind = "panic") <=> (\E d \in StepFns : Shifted(d).kind = "panic")
            /\ (Ret.kind = "return") =>
                    Ret.val = <<Shifted("up").val, Shifted("down").val,
                                Shifted("left").val, Shifted("right").val>>

C11_Witness ==
    /\ fn = "neighbors"
    /\ Arg(2) = "signed"
    /\ Arg(1) = Point(0, 0)
    /\ Ret = Return(<<Point(0, 0 - 1), Point(0, 1), Point(0 - 1, 0), Point(1, 0)>>)

\* C12: for all points a and b of a fixed-width integer type, signed or
\* unsigned, the minimum and maximum of the type included: a + b = b + a,
\* (a + b) - b = a, a.up().down() = a and a.left().right() = a.
C12_PointAlgebra ==
    /\ (fn = "add") =>
            /\ Ret.kind = "return"
            /\ Ret = add(Arg(3), build, Arg(2), Arg(1))
            /\ sub(Arg(3), build, Ret.val, Arg(2)) = Return(Arg(1))
    /\ (fn = "up") =>
            /\ Ret.kind = "return"
            /\ down(Arg(2), build, Ret.val) = Return(Arg(1))
    /\ (fn = "left") =>
            /\ Ret.kind = "return"
            /\ right(Arg(2), build, Ret.val) = Return(Arg(1))

\* element n of every row of the rectangular grid g, and row n of g
ColumnElems(g, n) == [r \in 1..Len(g) |-> g[r][n + 1]]
RowElems(g, n) == g[n + 1]

RECURSIVE MathSum(_, _)
MathSum(xs, i) == IF i > Len(xs) THEN 0 ELSE xs[i] + MathSum(xs, i + 1)

Smallest(xs) == CHOOSE m \in {xs[i] : i \in 1..Len(xs)} : \A i \in 1..Len(xs) : m <= xs[i]
Largest(xs) == CHOOSE m \in {xs[i] : i \in 1..Len(xs)} : \A i \in 1..Len(xs) : m >= xs[i]

\* the elements the accessor of the call is about
Elems == IF fn \in ColumnFns THEN ColumnElems(Arg(1), Arg(2)) ELSE RowElems(Arg(1), Arg(2))

\* the grid of the call is not empty and rectangular and n is in range
InRange ==
    /\ Arg(1) # <<>>
    /\ Rectangular(Arg(1))
    /\ IF fn \in ColumnFns THEN Arg(2) < Len(Arg(1)[1]) ELSE Arg(2) < Len(Arg(1))

\* C13: on a non-empty rectangular grid and an index n in range,
\* sum_column is the sum of element n of every row, sum_row the sum of the
\* elements of row n, and min_column / max_column / min_row / max_row the
\* smallest / largest of those elements; on [[1,2,3],[4,5,6],[7,8,9]]
\* sum_column(_, 1) = 15 and sum_row(_, 2) = 24.
C13_Aggregates ==
    (fn \in ColumnFns \cup RowFns /\ InRange) =>
        /\ (fn \in {"sum_column", "sum_row"}) => Ret = Return(Some(MathSum(Elems, 1)))
        /\ (fn \in {"min_column", "min_row"} /\ Elems # <<>>) => Ret = Return(Some(Smallest(Elems)))
        /\ (fn \in {"max_column", "max_row"} /\ Elems # <<>>) => Ret = Return(Some(Largest(Elems)))
        /\ (fn = "sum_column" /\ Arg(1) = SummationGrid /\ Arg(2) = 1) => Ret = Return(Some(15))
        /\ (fn = "sum_row" /\ Arg(1) = SummationGrid /\ Arg(2) = 2) => Ret = Return(Some(24))

\* row n of the grid of the call exists and has no elements
EmptyRowInRange == Arg(2) < Len(Arg(1)) /\ Arg(1)[Arg(2) + 1] = <<>>

\* C14: for a row n that exists but has no elements, sum_row returns the
\* value zero while min_row and max_row return the absence signal; sum_row
\* returns the absence signal only when n is not smaller than the number
\* of rows.
C14_EmptyRow ==
    /\ (fn = "sum_row" /\ EmptyRowInRange) => Ret = Return(Some(0))
    /\ (fn \in {"min_row", "max_row"} /\ EmptyRowInRange) => Ret = Return(None)
    /\ (fn = "sum_row") => ((Ret = Return(None)) <=> (Arg(2) >= Len(Arg(1))))

C14_Witness ==
    /\ fn = "sum_row"
    /\ Len(Arg(1)) = 2
    /\ Arg(2) = 1
    /\ Arg(1)[2] = <<>>
    /\ Arg(1)[1] # <<>>
    /\ Ret = Return(Some(0))
    /\ min_row(Arg(1), Arg(2)) = Return(None)

====
